---- MODULE Spec2Model ----
(***************************************************************************)
(* Skill-swap platform: the content moderation engine (moderation.py,      *)
(* spam_filter.py) and the skill matching engine (matching.py), with the   *)
(* module-level lazy singletons that hold their pretrained models.         *)
(*                                                                         *)
(* Python floats are modelled as exact rationals <<numerator, denominator>>*)
(* in lowest terms.  Text is modelled as a sequence of tokens joined by    *)
(* single spaces; every token is a concrete string whose keyword and regex *)
(* hits are tabulated from the lists and patterns of moderation.py.        *)
(***************************************************************************)
EXTENDS Integers, Sequences, FiniteSets, TLC

VARIABLES
    input_content,       \* the text the moderation calls are made on
    detoxify_available,  \* environment: does loading Detoxify('original') succeed
    detoxify_scores,     \* what the classifier's predict returns for that text
    _moderator,          \* moderation.py: the module global _moderator
    input_wanted,        \* the wanted-skills list the matching calls are made on
    input_users,         \* the candidate list the matching calls are made on
    encoder_available,   \* environment: does SentenceTransformer(model_name) load
    encoder_vectors,     \* what the encoder's encode returns for each cleaned skill
    _matcher,            \* matching.py: the module global _matcher
    call,                \* the last completed public call: arguments and return value
    loads,               \* how often the process constructed each pretrained model
    remembered,          \* an earlier completed call of the process, or Idle
    threads,             \* the calls in flight on concurrent threads, by thread
    frames,              \* the local accumulators of those calls, by frame
    mock_users,          \* database.py: the mock store, in insertion order
    session              \* app.py: st.session_state["user"], None when logged out

mod_vars == <<input_content, detoxify_available, detoxify_scores, _moderator>>
match_vars == <<input_wanted, input_users, encoder_available, encoder_vectors, _matcher>>
thread_vars == <<threads, frames>>
db_vars == <<mock_users, session>>
vars == <<mod_vars, match_vars, call, loads, remembered, thread_vars, db_vars>>

(***************************************************************************)
(* Bounds of the model.                                                    *)
(***************************************************************************)
MaxLen == 2        \* tokens per content string
MaxWanted == 1     \* skills per wanted-skills list
MaxUsers == 2      \* candidates per candidate list
MaxLoads == 2      \* constructions of one model after which spam_filter stops
MaxThreads == 2    \* threads that call into the engines at the same time
MaxWords == 4      \* words per text handed to a single check
MaxStored == 4     \* users one mock store holds

(***************************************************************************)
(* Optional values: Python's None and a present value.                     *)
(***************************************************************************)
None == {}
Some(x) == {x}
TheValue(o) == CHOOSE x \in o : TRUE

(***************************************************************************)
(* Exact rational arithmetic standing for Python float arithmetic.         *)
(***************************************************************************)
Abs(n) == IF n < 0 THEN -n ELSE n

RECURSIVE Gcd(_, _)
Gcd(a, b) == IF b = 0 THEN a ELSE Gcd(b, a % b)

Rat(n, d) ==
    IF n = 0 THEN <<0, 1>>
    ELSE LET g == Gcd(Abs(n), d) IN <<n \div g, d \div g>>

Zero == Rat(0, 1)
One == Rat(1, 1)
Tenths(n) == Rat(n, 10)

RAdd(a, b) == Rat(a[1] * b[2] + b[1] * a[2], a[2] * b[2])
RMul(a, b) == Rat(a[1] * b[1], a[2] * b[2])
RLt(a, b) == a[1] * b[2] < b[1] * a[2]
RLe(a, b) == a[1] * b[2] <= b[1] * a[2]
\* Python max(a, b) and min(a, b): the first argument wins ties
RMax(a, b) == IF RLt(a, b) THEN b ELSE a
\* mutant of RMin: the cap is left out
RMin_NoCap(a, b) == a
RMin(a, b) == IF RLt(b, a) THEN b ELSE a

IntMax(a, b) == IF b > a THEN b ELSE a

RECURSIVE SumOver(_, _)
SumOver(f, s) ==
    IF s = <<>> THEN 0 ELSE f[Head(s)] + SumOver(f, Tail(s))

RECURSIVE Join(_, _)
\* sep.join(parts) for a sequence of strings
Join(parts, sep) ==
    IF parts = <<>> THEN ""
    ELSE IF Len(parts) = 1 THEN parts[1]
    ELSE parts[1] \o sep \o Join(Tail(parts), sep)

(***************************************************************************)
(* The token vocabulary.  A content string is " ".join(tokens); the token  *)
(* " " is one extra whitespace character, ":emoji6:" stands for six        *)
(* alternating emoji characters (U+1F600, U+1F601).                        *)
(***************************************************************************)
Blank == " "
Emoji6 == ":emoji6:"
Tokens == {"PYTHON", "sale", "dating", "adult", "kill", "stupid", "idiot",
           "www.a.io", "a@b.io", "hurry", "!!", Emoji6, Blank}

Contents == UNION {[1..n -> Tokens] : n \in 0..MaxLen}
ContentTypes == {"skill", "message", "profile", "general"}

\* len(token) in characters
TokenLen ==
    [t \in Tokens |->
        CASE t = "PYTHON" -> 6 [] t = "sale" -> 4 [] t = "dating" -> 6
          [] t = "adult" -> 5 [] t = "kill" -> 4 [] t = "stupid" -> 6
          [] t = "idiot" -> 5 [] t = "www.a.io" -> 8 [] t = "a@b.io" -> 6
          [] t = "hurry" -> 5 [] t = "!!" -> 2 [] t = Emoji6 -> 6
          [] t = Blank -> 1]

\* number of disjoint runs of three ASCII letters the token holds
TokenLetterRuns ==
    [t \in Tokens |->
        CASE t \in {"PYTHON", "dating", "stupid"} -> 2
          [] t \in {"sale", "adult", "kill", "idiot", "www.a.io", "hurry"} -> 1
          [] OTHER -> 0]

\* the entries of _load_spam_keywords() that occur in token.lower()
TokenSpamKeywords ==
    [t \in Tokens |->
        CASE t = "sale" -> {"sale"} [] t = "dating" -> {"dating"} [] OTHER -> {}]

\* the matched entries in the order of the list self.spam_keywords
SpamKeywordOrder == <<"sale", "dating">>

\* indexes (1..5) of the suspicious_patterns of _check_spam the token matches
TokenSpamPatterns ==
    [t \in Tokens |->
        CASE t = "www.a.io" -> {1} [] t = "a@b.io" -> {2} [] OTHER -> {}]

\* indexes (1..8) of _load_toxic_patterns() the token matches
TokenToxicPatterns ==
    [t \in Tokens |-> CASE t = "kill" -> {5} [] OTHER -> {}]

\* the words of profanity_list that occur in token.lower()
TokenProfanity ==
    [t \in Tokens |->
        CASE t \in {"kill", "stupid", "idiot"} -> {t} [] OTHER -> {}]

\* inappropriate_keywords[category] entries that occur in token.lower()
TokenInappropriate(category) ==
    [t \in Tokens |->
        CASE category = "adult" /\ t = "adult" -> {"adult"}
          [] category = "dating" /\ t = "dating" -> {"dating"}
          [] OTHER -> {}]

\* indexes (1..9) of the word-level suspicious_patterns of
\* _check_suspicious_patterns the token matches
TokenSuspiciousPatterns ==
    [t \in Tokens |-> CASE t = "hurry" -> {3} [] OTHER -> {}]

TokenPunctuationRuns == [t \in Tokens |-> IF t = "!!" THEN 1 ELSE 0]
TokenEmojis == [t \in Tokens |-> IF t = Emoji6 THEN 6 ELSE 0]

HitsIn(table, content) == UNION {table[content[i]] : i \in 1..Len(content)}

\* len(content)
CharLen(content) ==
    IF content = <<>> THEN 0
    ELSE SumOver(TokenLen, content) + Len(content) - 1

\* content.split()
Split(content) == SelectSeq(content, LAMBDA t : t # Blank)

RECURSIVE LStrip(_)
LStrip(content) ==
    IF content # <<>> /\ Head(content) = Blank THEN LStrip(Tail(content))
    ELSE content

RECURSIVE RStrip(_)
RStrip(content) ==
    IF content # <<>> /\ content[Len(content)] = Blank
    THEN RStrip(SubSeq(content, 1, Len(content) - 1))
    ELSE content

\* content.strip()
Strip(content) == RStrip(LStrip(content))

(***************************************************************************)
(* moderation.py: the four checks.  Each returns the dict of the code as a *)
(* record [flag, confidence, reason].                                      *)
(***************************************************************************)
\* mutant of _check_spam: one suspicious pattern is enough
_check_spam_AnyPattern(content) ==
    LET matched_keywords ==
            SelectSeq(SpamKeywordOrder,
                      LAMBDA k : k \in HitsIn(TokenSpamKeywords, content))
        spam_count == Len(matched_keywords)
        pattern_matches == Cardinality(HitsIn(TokenSpamPatterns, content))
        total_words == Len(Split(content))
        spam_ratio == Rat(spam_count, IntMax(total_words, 1))
        is_spam == \/ spam_count >= 2
                   \/ RLt(Tenths(3), spam_ratio)
                   \/ pattern_matches >= 1
        confidence ==
            RMin(RAdd(RMul(spam_ratio, Rat(2, 1)), Tenths(3 * pattern_matches)), One)
        r1 == IF spam_count > 0
              THEN "Contains spam keywords: "
                      \o Join(SubSeq(matched_keywords, 1, IF spam_count < 3 THEN spam_count ELSE 3), ", ")
              ELSE ""
        r2 == IF pattern_matches > 0
              THEN r1 \o (IF r1 # "" THEN "; " ELSE "") \o "Contains suspicious patterns"
              ELSE r1
    IN [flag |-> is_spam,
        confidence |-> confidence,
        reason |-> IF r2 # "" THEN r2 ELSE "No spam detected"]

_check_spam(content) ==
    LET matched_keywords ==
            SelectSeq(SpamKeywordOrder,
                      LAMBDA k : k \in HitsIn(TokenSpamKeywords, content))
        spam_count == Len(matched_keywords)
        pattern_matches == Cardinality(HitsIn(TokenSpamPatterns, content))
        total_words == Len(Split(content))
        spam_ratio == Rat(spam_count, IntMax(total_words, 1))
        is_spam == \/ spam_count >= 2
                   \/ RLt(Tenths(3), spam_ratio)
                   \/ pattern_matches >= 2
        confidence ==
            RMin(RAdd(RMul(spam_ratio, Rat(2, 1)), Tenths(3 * pattern_matches)), One)
        r1 == IF spam_count > 0
              THEN "Contains spam keywords: "
                      \o Join(SubSeq(matched_keywords, 1, IF spam_count < 3 THEN spam_count ELSE 3), ", ")
              ELSE ""
        r2 == IF pattern_matches > 0
              THEN r1 \o (IF r1 # "" THEN "; " ELSE "") \o "Contains suspicious patterns"
              ELSE r1
    IN [flag |-> is_spam,
        confidence |-> confidence,
        reason |-> IF r2 # "" THEN r2 ELSE "No spam detected"]

_check_toxicity_rules(content) ==
    LET toxic_matches == Cardinality(HitsIn(TokenToxicPatterns, content))
        profanity_count == Cardinality(HitsIn(TokenProfanity, content))
        is_toxic == toxic_matches > 0 \/ profanity_count >= 2
        confidence ==
            RMin(RAdd(Tenths(4 * toxic_matches), Tenths(2 * profanity_count)), One)
        r1 == IF toxic_matches > 0 THEN "Contains toxic language patterns" ELSE ""
        r2 == IF profanity_count > 0
              THEN r1 \o (IF r1 # "" THEN "; " ELSE "") \o "Contains "
                      \o ToString(profanity_count) \o " potentially offensive words"
              ELSE r1
    IN [flag |-> is_toxic,
        confidence |-> confidence,
        reason |-> IF r2 # "" THEN r2 ELSE "No toxicity detected"]

\* the labels of the classifier, in the order of the toxicity_scores dict
ToxicityLabels ==
    <<"toxicity", "severe_toxicity", "obscene", "threat", "insult", "identity_attack">>

RECURSIVE MaxOfLabels(_, _)
\* max(toxicity_scores.values())
MaxOfLabels(scores, labels) ==
    IF Len(labels) = 1 THEN scores[labels[1]]
    ELSE RMax(scores[Head(labels)], MaxOfLabels(scores, Tail(labels)))

\* mutant of _check_toxicity: a predict that raises ends the check unflagged
_check_toxicity_NoFallback(content, detoxify_model, prediction) ==
    IF detoxify_model # None /\ prediction.raised
    THEN [flag |-> FALSE, confidence |-> Zero, reason |-> "No toxicity detected"]
    ELSE IF detoxify_model # None
    THEN LET toxicity_scores == prediction.scores
             is_toxic == \/ RLt(Tenths(6), toxicity_scores["toxicity"])
                         \/ RLt(Tenths(3), toxicity_scores["severe_toxicity"])
                         \/ RLt(Tenths(5), toxicity_scores["threat"])
                         \/ RLt(Tenths(5), toxicity_scores["insult"])
                         \/ RLt(Tenths(5), toxicity_scores["identity_attack"])
             flagged_categories ==
                 SelectSeq(ToxicityLabels, LAMBDA k : RLt(Tenths(5), toxicity_scores[k]))
         IN [flag |-> is_toxic,
             confidence |-> MaxOfLabels(toxicity_scores, ToxicityLabels),
             reason |-> IF flagged_categories # <<>>
                        THEN "AI detected: " \o Join(flagged_categories, ", ")
                        ELSE "No toxicity detected"]
    ELSE _check_toxicity_rules(content)

\* mutant of _check_toxicity: a high obscene score flags as well
_check_toxicity_ObsceneFlags(content, detoxify_model, prediction) ==
    IF detoxify_model # None /\ ~prediction.raised
    THEN LET toxicity_scores == prediction.scores
             max_score == MaxOfLabels(toxicity_scores, ToxicityLabels)
             is_toxic == \/ RLt(Tenths(6), toxicity_scores["toxicity"])
                         \/ RLt(Tenths(3), toxicity_scores["severe_toxicity"])
                         \/ RLt(Tenths(5), toxicity_scores["threat"])
                         \/ RLt(Tenths(5), toxicity_scores["insult"])
                         \/ RLt(Tenths(5), toxicity_scores["identity_attack"])
                         \/ RLt(Tenths(5), toxicity_scores["obscene"])
             flagged_categories ==
                 SelectSeq(ToxicityLabels, LAMBDA k : RLt(Tenths(5), toxicity_scores[k]))
         IN [flag |-> is_toxic,
             confidence |-> max_score,
             reason |-> IF flagged_categories # <<>>
                        THEN "AI detected: " \o Join(flagged_categories, ", ")
                        ELSE "No toxicity detected"]
    ELSE _check_toxicity_rules(content)

\* prediction: what self.detoxify_model.predict(content) did in this call,
\* [raised |-> TRUE] or [raised |-> FALSE, scores |-> label -> score]
_check_toxicity(content, detoxify_model, prediction) ==
    IF detoxify_model # None /\ ~prediction.raised
    THEN LET toxicity_scores == prediction.scores
             max_score == MaxOfLabels(toxicity_scores, ToxicityLabels)
             is_toxic == \/ RLt(Tenths(6), toxicity_scores["toxicity"])
                         \/ RLt(Tenths(3), toxicity_scores["severe_toxicity"])
                         \/ RLt(Tenths(5), toxicity_scores["threat"])
                         \/ RLt(Tenths(5), toxicity_scores["insult"])
                         \/ RLt(Tenths(5), toxicity_scores["identity_attack"])
             flagged_categories ==
                 SelectSeq(ToxicityLabels, LAMBDA k : RLt(Tenths(5), toxicity_scores[k]))
         IN [flag |-> is_toxic,
             confidence |-> max_score,
             reason |-> IF flagged_categories # <<>>
                        THEN "AI detected: " \o Join(flagged_categories, ", ")
                        ELSE "No toxicity detected"]
    ELSE _check_toxicity_rules(content)

RECURSIVE InappropriateScan(_, _, _)
\* the loop over inappropriate_categories: <<flagged_categories, total_matches>>
InappropriateScan(categories, content, acc) ==
    IF categories = <<>> THEN acc
    ELSE LET matches == Cardinality(HitsIn(TokenInappropriate(Head(categories)), content))
         IN InappropriateScan(Tail(categories), content,
                IF matches > 0
                THEN <<Append(acc[1], Head(categories)), acc[2] + matches>>
                ELSE acc)

\* mutant of _check_inappropriate: skill content is checked for dating only
_check_inappropriate_SkillDatingOnly(content, content_type) ==
    LET inappropriate_categories ==
            IF content_type = "skill" THEN <<"dating">> ELSE <<"adult">>
        scan == InappropriateScan(inappropriate_categories, content, <<<<>>, 0>>)
        flagged_categories == scan[1]
        total_matches == scan[2]
    IN [flag |-> Len(flagged_categories) > 0,
        confidence |-> RMin(Tenths(3 * total_matches), One),
        reason |-> IF flagged_categories # <<>>
                   THEN "Contains inappropriate content: " \o Join(flagged_categories, ", ")
                   ELSE "Content is appropriate"]

_check_inappropriate(content, content_type) ==
    LET inappropriate_categories ==
            IF content_type = "skill" THEN <<"adult", "dating">> ELSE <<"adult">>
        scan == InappropriateScan(inappropriate_categories, content, <<<<>>, 0>>)
        flagged_categories == scan[1]
        total_matches == scan[2]
    IN [flag |-> Len(flagged_categories) > 0,
        confidence |-> RMin(Tenths(3 * total_matches), One),
        reason |-> IF flagged_categories # <<>>
                   THEN "Contains inappropriate content: " \o Join(flagged_categories, ", ")
                   ELSE "Content is appropriate"]

\* indexes (1..9) of the suspicious_patterns that re.search finds in content:
\* 7 is three runs of three letters (the pattern is searched with IGNORECASE),
\* 8 and 9 are runs of five and of six equal characters, which runs of
\* whitespace make up
SuspiciousPatternHits(content) ==
    HitsIn(TokenSuspiciousPatterns, content)
    \cup (IF SumOver(TokenLetterRuns, content) >= 3 THEN {7} ELSE {})
    \cup (IF \E i \in 1..(Len(content) - 1) :
                content[i] = Blank /\ content[i + 1] = Blank
          THEN {8} ELSE {})
    \cup (IF \E i \in 1..(Len(content) - 2) :
                content[i] = Blank /\ content[i + 1] = Blank /\ content[i + 2] = Blank
          THEN {9} ELSE {})

_check_suspicious_patterns(content) ==
    LET pattern_matches == Cardinality(SuspiciousPatternHits(content))
        punctuation_ratio ==
            Rat(SumOver(TokenPunctuationRuns, content), IntMax(CharLen(content), 1))
        emoji_count == SumOver(TokenEmojis, content)
        is_suspicious == \/ pattern_matches >= 2
                         \/ RLt(Tenths(1), punctuation_ratio)
                         \/ emoji_count > 10
        confidence ==
            RMin(RAdd(RAdd(Tenths(3 * pattern_matches),
                           RMul(punctuation_ratio, Rat(2, 1))),
                      Rat(5 * emoji_count, 100)), One)
        r1 == IF pattern_matches > 0
              THEN "Contains " \o ToString(pattern_matches) \o " suspicious patterns"
              ELSE ""
        r2 == IF RLt(Tenths(1), punctuation_ratio)
              THEN r1 \o (IF r1 # "" THEN "; " ELSE "") \o "Excessive punctuation"
              ELSE r1
        r3 == IF emoji_count > 10
              THEN r2 \o (IF r2 # "" THEN "; " ELSE "") \o "Excessive emojis ("
                      \o ToString(emoji_count) \o ")"
              ELSE r2
    IN [flag |-> is_suspicious,
        confidence |-> confidence,
        reason |-> IF r3 # "" THEN r3 ELSE "No suspicious patterns detected"]

\* the word loop of _clean_content: long all-caps alphabetic words are capitalized
CleanWord(word) == IF word = "PYTHON" THEN "Python" ELSE word

RECURSIVE CleanWords(_)
CleanWords(words) ==
    IF words = <<>> THEN <<>>
    ELSE <<CleanWord(Head(words))>> \o CleanWords(Tail(words))

\* the cleaned string, as the text it is
_clean_content(content) == Join(CleanWords(Split(content)), " ")

(***************************************************************************)
(* moderation.py: ContentModerator.moderate_content.                       *)
(***************************************************************************)
ModerationResult(is_flagged, confidence, categories, reason, cleaned_content) ==
    [is_flagged |-> is_flagged,
     confidence |-> confidence,
     categories |-> categories,
     reason |-> reason,
     cleaned_content |-> cleaned_content]

\* mutant of IsEmptyContent: whitespace-only text is not stripped first
IsEmptyContent_NoStrip(content) == content = <<>>

\* the early return: not content or not content.strip()
IsEmptyContent(content) == content = <<>> \/ Strip(content) = <<>>

\* mutant of Collect: max_confidence follows every check, flagged or not
Collect_EveryConfidence(acc, name, check) ==
    [flagged_categories |-> IF check.flag THEN Append(acc.flagged_categories, name)
                            ELSE acc.flagged_categories,
     max_confidence |-> RMax(acc.max_confidence, check.confidence),
     reasons |-> IF check.flag THEN Append(acc.reasons, check.reason) ELSE acc.reasons]

\* mutant of Collect: the confidence of the last flagged check overwrites
Collect_Overwrite(acc, name, check) ==
    IF check.flag
    THEN [flagged_categories |-> Append(acc.flagged_categories, name),
          max_confidence |-> check.confidence,
          reasons |-> Append(acc.reasons, check.reason)]
    ELSE acc

\* one "if <check>_result[...]:" block: a check that flagged adds its name,
\* raises max_confidence and adds its reason
Collect(acc, name, check) ==
    IF check.flag
    THEN [flagged_categories |-> Append(acc.flagged_categories, name),
          max_confidence |-> RMax(acc.max_confidence, check.confidence),
          reasons |-> Append(acc.reasons, check.reason)]
    ELSE acc

\* mutant of Aggregate: flagged is decided by a confidence threshold
Aggregate_Threshold(acc, content) ==
    LET is_flagged == RLt(Tenths(5), acc.max_confidence)
        combined_reason ==
            IF acc.reasons # <<>> THEN Join(acc.reasons, "; ")
            ELSE "Content passed moderation"
    IN ModerationResult(is_flagged, acc.max_confidence, acc.flagged_categories,
                        combined_reason,
                        IF ~is_flagged THEN Some(_clean_content(content)) ELSE None)

\* mutant of Aggregate: the cleaned text is attached to every verdict
Aggregate_AlwaysClean(acc, content) ==
    LET is_flagged == Len(acc.flagged_categories) > 0
        combined_reason ==
            IF acc.reasons # <<>> THEN Join(acc.reasons, "; ")
            ELSE "Content passed moderation"
    IN ModerationResult(is_flagged, acc.max_confidence, acc.flagged_categories,
                        combined_reason, Some(_clean_content(content)))

\* the verdict built from the accumulators after the four checks
Aggregate(acc, content) ==
    LET is_flagged == Len(acc.flagged_categories) > 0
        combined_reason ==
            IF acc.reasons # <<>> THEN Join(acc.reasons, "; ")
            ELSE "Content passed moderation"
    IN ModerationResult(is_flagged, acc.max_confidence, acc.flagged_categories,
                        combined_reason,
                        IF ~is_flagged THEN Some(_clean_content(content)) ELSE None)

\* Returns the verdict together with what the call ran: the checks it called,
\* in order, and whether it called the classifier's predict.
moderate_content(content, content_type, detoxify_model, prediction) ==
    IF IsEmptyContent(content)
    THEN [result |-> ModerationResult(FALSE, Zero, <<>>, "Empty content", None),
          checks_run |-> <<>>,
          predicted |-> FALSE]
    ELSE LET stripped == Strip(content)
             acc0 == [flagged_categories |-> <<>>, max_confidence |-> Zero,
                      reasons |-> <<>>]
             spam_result == _check_spam(stripped)
             acc1 == Collect(acc0, "spam", spam_result)
             toxic_result == _check_toxicity(stripped, detoxify_model, prediction)
             acc2 == Collect(acc1, "toxic", toxic_result)
             inappropriate_result == _check_inappropriate(stripped, content_type)
             acc3 == Collect(acc2, "inappropriate", inappropriate_result)
             suspicious_result == _check_suspicious_patterns(stripped)
             acc4 == Collect(acc3, "suspicious", suspicious_result)
         IN [result |-> Aggregate(acc4, stripped),
             checks_run |-> <<"spam", "toxic", "inappropriate", "suspicious">>,
             predicted |-> detoxify_model # None]

\* ContentModerator(): the constructor loads the classifier, None when the
\* import or the load fails
ContentModerator == [detoxify_model |-> IF detoxify_available
                                        THEN Some("Detoxify('original')")
                                        ELSE None]

\* get_moderator(): the value of the global _moderator after the call
get_moderator == IF _moderator = None THEN Some(ContentModerator) ELSE _moderator

\* mutant of is_spammy: every flagged verdict counts as spammy
is_spammy_AnyFlag(content, detoxify_model, prediction) ==
    IF content = <<>>
    THEN [result |-> FALSE, predicted |-> FALSE]
    ELSE LET m == moderate_content(content, "general", detoxify_model, prediction)
         IN [result |-> m.result.is_flagged, predicted |-> m.predicted]

\* moderation.is_spammy, given the classifier the moderator of get_moderator()
\* holds: the return value, and whether the call reached predict
is_spammy(content, detoxify_model, prediction) ==
    IF content = <<>>
    THEN [result |-> FALSE, predicted |-> FALSE]
    ELSE LET m == moderate_content(content, "general", detoxify_model, prediction)
             r == m.result
         IN [result |-> r.is_flagged
                        /\ (\E i \in 1..Len(r.categories) :
                               r.categories[i] \in {"spam", "suspicious"}),
             predicted |-> m.predicted]

\* spam_filter.is_spammy: the classifier alone
spam_filter_is_spammy(prediction) ==
    \/ RLt(Tenths(7), prediction.scores["toxicity"])
    \/ RLt(Tenths(5), prediction.scores["insult"])

(***************************************************************************)
(* What the classifier's predict can do in one call.  The scores are the   *)
(* sigmoid outputs of the model, each in [0,1]; the grid holds a low       *)
(* baseline and one or two raised labels.                                  *)
(***************************************************************************)
LowScores == [k \in {ToxicityLabels[i] : i \in 1..Len(ToxicityLabels)} |-> Tenths(1)]
Raised(label, tenths) == [LowScores EXCEPT ![label] = Tenths(tenths)]

ScoreGrid ==
    {LowScores,
     Raised("toxicity", 6), Raised("toxicity", 8),
     Raised("severe_toxicity", 4), Raised("obscene", 10), Raised("insult", 6)}

NotCalled == [outcome |-> "not called"]
PredictRaised == [outcome |-> "raised", raised |-> TRUE]
PredictReturned(scores) == [outcome |-> "returned", raised |-> FALSE, scores |-> scores]

\* predict(content) in one call: the scores of the loaded model for this
\* content, unless inference fails in this call
Predictions == {PredictRaised, PredictReturned(detoxify_scores)}

\* mutant of detoxify_model_after: a predict that raised disables the handle
detoxify_model_after_Dropped(detoxify_model, prediction) ==
    IF prediction.outcome = "raised" THEN None ELSE detoxify_model

\* self.detoxify_model once _check_toxicity returned: the except branch only
\* logs, the attribute is assigned in __init__ and _load_detoxify_model alone
detoxify_model_after(detoxify_model, prediction) == detoxify_model

\* the moderator object after a moderate_content call on it
moderator_after(moderator, prediction) ==
    [moderator EXCEPT !.detoxify_model = detoxify_model_after(@, prediction)]

(***************************************************************************)
(* The state machine of the moderation engine.  Init draws the text under  *)
(* moderation and what the classifier holds for it.  A behaviour is one    *)
(* public call on that text (call is Idle until it returns), made before   *)
(* or after the lazy singleton was loaded by an earlier get_moderator().   *)
(***************************************************************************)
Idle == [op |-> "none"]

\* no model constructed yet, no call completed, no thread running
NoLoads == [encoder |-> 0, detoxify |-> 0]
Sequential == threads = <<>> /\ frames = <<>>

\* the engines on their own: no store, nobody logged in
StoreUnused == mock_users = <<>> /\ session = None
FirstCall == loads = NoLoads /\ remembered = Idle

\* ContentModerator() inside get_moderator(): one more Detoxify('original')
\* where it was the first call and the load succeeds
LoadsAfterGetModerator ==
    IF _moderator = None /\ detoxify_available
    THEN [loads EXCEPT !.detoxify = @ + 1] ELSE loads

\* SkillMatcher() inside get_matcher(): one more SentenceTransformer
LoadsAfterGetMatcher ==
    IF _matcher = None /\ encoder_available
    THEN [loads EXCEPT !.encoder = @ + 1] ELSE loads

\* the matching engine before any call, with nothing to match
MatchingUnused ==
    /\ input_wanted = <<>>
    /\ input_users = <<>>
    /\ encoder_available = TRUE
    /\ encoder_vectors = <<>>
    /\ _matcher = None

InitMod ==
    /\ input_content \in Contents
    /\ detoxify_available \in BOOLEAN
    /\ detoxify_scores \in (IF detoxify_available THEN ScoreGrid ELSE {LowScores})
    /\ _moderator = None
    /\ MatchingUnused
    /\ call = Idle
    /\ FirstCall
    /\ Sequential
    /\ StoreUnused

\* get_moderator() on its own, as clean_user_input makes it: the first call
\* constructs the moderator, later ones return it
GetModerator ==
    /\ _moderator' = get_moderator
    /\ loads' = LoadsAfterGetModerator
    /\ UNCHANGED <<input_content, detoxify_available, detoxify_scores, match_vars,
                   call, remembered, thread_vars>>
    /\ UNCHANGED db_vars

\* moderation.moderate_content(content, content_type)
ModerateContent ==
    /\ call = Idle
    /\ \E content_type \in ContentTypes, p \in Predictions :
        LET moderator == TheValue(get_moderator)
            m == moderate_content(input_content, content_type,
                                  moderator.detoxify_model, p)
            prediction == IF m.predicted THEN p ELSE NotCalled
        IN /\ _moderator' = Some(moderator_after(moderator, prediction))
           /\ loads' = LoadsAfterGetModerator
           /\ call' = [op |-> "moderate_content",
                       content_type |-> content_type,
                       detoxify_model |-> moderator.detoxify_model,
                       prediction |-> prediction,
                       checks_run |-> m.checks_run,
                       result |-> m.result]
           /\ UNCHANGED <<input_content, detoxify_available, detoxify_scores,
                          match_vars, remembered, thread_vars>>
    /\ UNCHANGED db_vars

\* moderation.is_spammy(content)
IsSpammy ==
    /\ call = Idle
    /\ \E p \in Predictions :
        LET detoxify_model == IF input_content = <<>> THEN None
                              ELSE TheValue(get_moderator).detoxify_model
            r == is_spammy(input_content, detoxify_model, p)
            prediction == IF r.predicted THEN p ELSE NotCalled
            after == IF input_content = <<>> THEN _moderator
                     ELSE Some(moderator_after(TheValue(get_moderator), prediction))
        IN /\ _moderator' = after
           /\ loads' = IF input_content = <<>> THEN loads ELSE LoadsAfterGetModerator
           /\ call' = [op |-> "is_spammy",
                       detoxify_model |-> detoxify_model,
                       prediction |-> prediction,
                       result |-> r.result]
           /\ UNCHANGED <<input_content, detoxify_available, detoxify_scores,
                          match_vars, remembered, thread_vars>>
    /\ UNCHANGED db_vars

\* app.py: the Register and add-skills gates call spam_filter.is_spammy on the
\* joined form text; the module imports detoxify, so it exists only where the
\* classifier can be loaded.  A predict that raises propagates to the page.
SpamGate ==
    /\ call = Idle
    /\ detoxify_available
    /\ loads.detoxify < MaxLoads
    /\ \E p \in Predictions :
        /\ call' = [op |-> "spam_filter.is_spammy",
                    prediction |-> p,
                    result |-> IF p.raised THEN FALSE ELSE spam_filter_is_spammy(p)]
        /\ loads' = [loads EXCEPT !.detoxify = @ + 1]
        /\ UNCHANGED <<mod_vars, match_vars, remembered, thread_vars>>
    /\ UNCHANGED db_vars

NextMod == GetModerator \/ ModerateContent \/ IsSpammy \/ SpamGate

SpecMod == InitMod /\ [][NextMod]_vars

(***************************************************************************)
(* matching.py: skills, the encoder and the similarity of two skill sets.  *)
(***************************************************************************)
Skills == {"Python", " JS "}

\* strip, lowercase, then the substring replacements of skill_expansions
\* ('py' -> 'python' inside "python", 'js' -> 'javascript')
_clean_skill(skill) ==
    CASE skill = "Python" -> "pythonthon"
      [] skill = " JS " -> "javascript"
      [] skill = "JavaScript" -> "javascript"
      [] skill = "React" -> "react"
      [] skill = "Data Science" -> "data science"

CleanedSkills == {_clean_skill(skill) : skill \in Skills}

\* the embeddings the encoder can hold for a text
Vectors == {<<5, 0>>, <<-5, 0>>, <<3, 4>>}

Dot(u, v) == u[1] * v[1] + u[2] * v[2]
VectorNorm(v) == CHOOSE n \in 0..(Abs(v[1]) + Abs(v[2])) : n * n = Dot(v, v)
\* util.cos_sim of two embeddings
CosSim(u, v) == Rat(Dot(u, v), VectorNorm(u) * VectorNorm(v))

RECURSIVE MaxOfSet(_)
\* similarity_matrix.max()
MaxOfSet(S) ==
    LET x == CHOOSE y \in S : TRUE
    IN IF S = {x} THEN x ELSE RMax(x, MaxOfSet(S \ {x}))

SeqToSet(seq) == {seq[i] : i \in 1..Len(seq)}

\* SkillMatcher.get_similarity; encode_raises: an encode call of this
\* comparison raised, encode_skills then returns an empty array
get_similarity(skills1, skills2, vectors, encode_raises) ==
    IF skills1 = <<>> \/ skills2 = <<>> THEN Zero
    ELSE IF encode_raises THEN Zero
    ELSE MaxOfSet({CosSim(vectors[_clean_skill(a)], vectors[_clean_skill(b)]) :
                      a \in SeqToSet(skills1), b \in SeqToSet(skills2)})

(***************************************************************************)
(* matching.py: candidate profiles.  A field the dict lacks, or holds as   *)
(* None, is None here; user.get(field) is truthy for a non-empty value.    *)
(***************************************************************************)
TruthyText(field) == field # None /\ TheValue(field) # ""
TruthyList(field) == field # None /\ TheValue(field) # <<>>

Profile(name, skills_offered, skills_wanted, availability, location) ==
    [name |-> name, skills_offered |-> skills_offered,
     skills_wanted |-> skills_wanted, availability |-> availability,
     location |-> location]

ProfileShapes ==
    {Profile(Some("Alice"), Some(<<"Python", " JS ">>), Some(<<" JS ">>),
             Some("Evenings"), Some("Delhi")),
     Profile(None, Some(<<" JS ">>), None, None, None),
     Profile(Some("Bob"), Some(<<"Python">>), Some(<<>>), Some("Weekends"), None),
     Profile(Some("Cara"), Some(<<>>), Some(<<"Python">>), Some("Mornings"),
             Some("Mumbai")),
     Profile(Some("Dev"), None, Some(<<"Python">>), Some("Mornings"), Some("Pune"))}

\* the candidate at position i of the list carries the id i
WithIds(shapes) ==
    [i \in 1..Len(shapes) |->
        [id |-> i, name |-> shapes[i].name,
         skills_offered |-> shapes[i].skills_offered,
         skills_wanted |-> shapes[i].skills_wanted,
         availability |-> shapes[i].availability,
         location |-> shapes[i].location]]

UserLists == {WithIds(shapes) : shapes \in UNION {[1..n -> ProfileShapes] : n \in 0..MaxUsers}}
WantedLists == UNION {[1..n -> Skills] : n \in 0..MaxWanted}
TopKs == {-1, 0, 1, 2, 5}

\* mutant of _calculate_contextual_score: the sum is divided by all five signals
_calculate_contextual_score_FiveSignals(user, wanted_skills) ==
    LET has_availability == TruthyText(user.availability)
        has_location == TruthyText(user.location)
        filled_fields ==
            (IF TruthyText(user.name) THEN 1 ELSE 0)
            + (IF TruthyList(user.skills_offered) THEN 1 ELSE 0)
            + (IF TruthyList(user.skills_wanted) THEN 1 ELSE 0)
            + (IF TruthyText(user.availability) THEN 1 ELSE 0)
        completeness == Rat(filled_fields, 4)
        has_offered == TruthyList(user.skills_offered)
        diversity_score ==
            IF has_offered
            THEN RMin(Rat(Len(TheValue(user.skills_offered)), 10), One)
            ELSE Zero
        has_wanted == TruthyList(user.skills_wanted)
        score ==
            RAdd(RAdd(RAdd(RAdd(IF has_availability THEN Tenths(2) ELSE Zero,
                                IF has_location THEN Tenths(1) ELSE Zero),
                           RMul(completeness, Tenths(3))),
                      IF has_offered THEN RMul(diversity_score, Tenths(2)) ELSE Zero),
                 IF has_wanted THEN Tenths(1) ELSE Zero)
        factors ==
            (IF has_availability THEN 1 ELSE 0) + (IF has_location THEN 1 ELSE 0)
            + 1 + (IF has_offered THEN 1 ELSE 0) + (IF has_wanted THEN 1 ELSE 0)
    IN IF factors > 0 THEN RMul(score, Rat(1, 5)) ELSE Zero

_calculate_contextual_score(user, wanted_skills) ==
    LET has_availability == TruthyText(user.availability)
        has_location == TruthyText(user.location)
        filled_fields ==
            (IF TruthyText(user.name) THEN 1 ELSE 0)
            + (IF TruthyList(user.skills_offered) THEN 1 ELSE 0)
            + (IF TruthyList(user.skills_wanted) THEN 1 ELSE 0)
            + (IF TruthyText(user.availability) THEN 1 ELSE 0)
        completeness == Rat(filled_fields, 4)
        has_offered == TruthyList(user.skills_offered)
        diversity_score ==
            IF has_offered
            THEN RMin(Rat(Len(TheValue(user.skills_offered)), 10), One)
            ELSE Zero
        has_wanted == TruthyList(user.skills_wanted)
        score ==
            RAdd(RAdd(RAdd(RAdd(IF has_availability THEN Tenths(2) ELSE Zero,
                                IF has_location THEN Tenths(1) ELSE Zero),
                           RMul(completeness, Tenths(3))),
                      IF has_offered THEN RMul(diversity_score, Tenths(2)) ELSE Zero),
                 IF has_wanted THEN Tenths(1) ELSE Zero)
        factors ==
            (IF has_availability THEN 1 ELSE 0) + (IF has_location THEN 1 ELSE 0)
            + 1 + (IF has_offered THEN 1 ELSE 0) + (IF has_wanted THEN 1 ELSE 0)
    IN IF factors > 0 THEN RMul(score, Rat(1, factors)) ELSE Zero

\* mutant of Eligible: only a missing skills_offered is skipped
Eligible_NotNone(user) == user.skills_offered # None

\* the candidates match_users scores: not (not user.get('skills_offered'))
Eligible(user) == TruthyList(user.skills_offered)

\* (70% similarity, 30% contextual)
FinalScore(match_score, contextual_score) ==
    RAdd(RMul(match_score, Tenths(7)), RMul(contextual_score, Tenths(3)))

RECURSIVE ScoreAll(_, _, _, _, _)
\* the loop over all_users from position i on: the list matches, in input order
ScoreAll(user_wanted_skills, all_users, vectors, failing, i) ==
    IF i > Len(all_users) THEN <<>>
    ELSE LET user == all_users[i]
             rest == ScoreAll(user_wanted_skills, all_users, vectors, failing, i + 1)
         IN IF ~Eligible(user) THEN rest
            ELSE LET match_score ==
                         get_similarity(user_wanted_skills,
                                        IF user.skills_offered = None THEN <<>>
                                        ELSE TheValue(user.skills_offered),
                                        vectors, i \in failing)
                     contextual_score ==
                         _calculate_contextual_score(user, user_wanted_skills)
                 IN <<[user |-> user,
                       score |-> FinalScore(match_score, contextual_score)]>> \o rest

RECURSIVE InsertDescending_TiesFirst(_, _)
\* mutant of InsertDescending: m goes ahead of the entries with its own score
InsertDescending_TiesFirst(sorted, m) ==
    IF sorted = <<>> THEN <<m>>
    ELSE IF RLe(Head(sorted).score, m.score) THEN <<m>> \o sorted
    ELSE <<Head(sorted)>> \o InsertDescending_TiesFirst(Tail(sorted), m)

RECURSIVE InsertDescending(_, _)
\* m goes behind every entry whose score is not lower than its own
InsertDescending(sorted, m) ==
    IF sorted = <<>> THEN <<m>>
    ELSE IF RLt(Head(sorted).score, m.score) THEN <<m>> \o sorted
    ELSE <<Head(sorted)>> \o InsertDescending(Tail(sorted), m)

RECURSIVE SortDescending(_, _)
\* matches.sort(key=lambda x: x[1], reverse=True): a stable sort
SortDescending(matches, sorted) ==
    IF matches = <<>> THEN sorted
    ELSE SortDescending(Tail(matches), InsertDescending(sorted, Head(matches)))

\* mutant of SliceTo: one entry too many
SliceTo_OneMore(list, top_k) == SubSeq(list, 1, IF top_k + 1 < Len(list) THEN top_k + 1 ELSE Len(list))

\* list[:top_k], with Python's reading of a negative top_k
SliceTo(list, top_k) ==
    LET n == Len(list)
        stop == IF top_k >= 0 THEN (IF top_k < n THEN top_k ELSE n)
                ELSE (IF n + top_k > 0 THEN n + top_k ELSE 0)
    IN SubSeq(list, 1, stop)

\* mutant of all_users_after_scoring: the scorer fills in a missing
\* skills_wanted with user.setdefault('skills_wanted', [])
all_users_after_scoring_SetDefault(all_users) ==
    [i \in 1..Len(all_users) |->
        IF Eligible(all_users[i]) /\ all_users[i].skills_wanted = None
        THEN [all_users[i] EXCEPT !.skills_wanted = Some(<<>>)]
        ELSE all_users[i]]

\* the caller's list and records after the loop of match_users: the loop and
\* _calculate_contextual_score read each record with .get and [], and
\* append, sort and the slice act on the new list matches
all_users_after_scoring(all_users) == all_users

\* mutant of match_users: a call that finds the model not loaded yet returns
\* nothing instead of waiting for the load
match_users_ColdStart(user_wanted_skills, all_users, top_k, vectors, failing) ==
    IF user_wanted_skills = <<>> \/ all_users = <<>> \/ _matcher = None THEN <<>>
    ELSE SliceTo(SortDescending(ScoreAll(user_wanted_skills, all_users, vectors,
                                         failing, 1), <<>>), top_k)

\* mutant of match_users: only an empty candidate list returns early
match_users_NoWantedCheck(user_wanted_skills, all_users, top_k, vectors, failing) ==
    IF all_users = <<>> THEN <<>>
    ELSE SliceTo(SortDescending(ScoreAll(user_wanted_skills, all_users, vectors,
                                         failing, 1), <<>>), top_k)

\* match_users once get_matcher() has returned the matcher; failing: the
\* positions of the candidates for which an encode call raises in this call
match_users(user_wanted_skills, all_users, top_k, vectors, failing) ==
    IF user_wanted_skills = <<>> \/ all_users = <<>> THEN <<>>
    ELSE SliceTo(SortDescending(ScoreAll(user_wanted_skills, all_users, vectors,
                                         failing, 1), <<>>), top_k)

\* SkillMatcher(): the loaded sentence transformer
SkillMatcher == [model |-> "all-MiniLM-L6-v2"]

\* get_matcher(): the value of the global _matcher after the call; where the
\* model cannot be loaded the constructor raises and the global stays None
get_matcher ==
    IF _matcher = None
    THEN (IF encoder_available THEN Some(SkillMatcher) ELSE None)
    ELSE _matcher

(***************************************************************************)
(* The state machine of the matching engine.  Init draws the wanted list,  *)
(* the candidate list and the vectors the encoder holds; a behaviour is    *)
(* one match_users call on them, before or after the matcher was loaded.   *)
(***************************************************************************)
ModerationUnused ==
    /\ input_content = <<>>
    /\ detoxify_available = TRUE
    /\ detoxify_scores = LowScores
    /\ _moderator = None

InitMatch ==
    /\ input_wanted \in WantedLists
    /\ input_users \in UserLists
    /\ encoder_available \in BOOLEAN
    /\ encoder_vectors \in (IF encoder_available THEN [CleanedSkills -> Vectors]
                            ELSE {[c \in CleanedSkills |-> <<5, 0>>]})
    /\ _matcher = None
    /\ ModerationUnused
    /\ call = Idle
    /\ FirstCall
    /\ Sequential
    /\ StoreUnused

\* get_matcher() on its own, as get_skill_similarity makes it
GetMatcher ==
    /\ _matcher' = get_matcher
    /\ loads' = LoadsAfterGetMatcher
    /\ UNCHANGED <<input_wanted, input_users, encoder_available, encoder_vectors,
                   mod_vars, call, remembered, thread_vars>>
    /\ UNCHANGED db_vars

\* matching.match_users(user_wanted_skills, all_users, top_k)
MatchUsers ==
    /\ call = Idle
    /\ \E top_k \in TopKs, failing \in SUBSET (1..Len(input_users)) :
        LET early == input_wanted = <<>> \/ input_users = <<>>
            raised == ~early /\ get_matcher = None
        IN /\ _matcher' = IF early THEN _matcher ELSE get_matcher
           /\ loads' = IF early THEN loads ELSE LoadsAfterGetMatcher
           /\ input_users' = IF early \/ raised THEN input_users
                             ELSE all_users_after_scoring(input_users)
           /\ call' = [op |-> "match_users",
                       top_k |-> top_k,
                       failing |-> IF early \/ raised THEN {} ELSE failing,
                       raised |-> raised,
                       result |-> IF raised THEN <<>>
                                  ELSE match_users(input_wanted, input_users, top_k,
                                                   encoder_vectors, failing)]
           /\ UNCHANGED <<input_wanted, encoder_available, encoder_vectors,
                          mod_vars, remembered, thread_vars>>
    /\ UNCHANGED db_vars

NextMatch == GetMatcher \/ MatchUsers

SpecMatch == InitMatch /\ [][NextMatch]_vars

(***************************************************************************)
(* The process as a sequence of public calls.  Init draws one text, one    *)
(* wanted list and one candidate list; the process makes any number of     *)
(* calls on them, one after the other, each with its own arguments and its *)
(* own inference outcome.  remembered keeps one earlier call, any of them. *)
(***************************************************************************)
SeqContents == {<<"stupid", "idiot">>, <<"PYTHON">>}
SeqScores == {LowScores, Raised("toxicity", 8)}
SeqWanted == {<<"Python">>}
SeqUsers ==
    {WithIds(<<Profile(None, Some(<<" JS ">>), None, None, None),
               Profile(Some("Bob"), Some(<<"Python">>), Some(<<>>), Some("Weekends"),
                       None)>>)}
SeqVectors == {v \in [CleanedSkills -> Vectors] : v["pythonthon"] = <<5, 0>>}

InitSeq ==
    /\ input_content \in SeqContents
    /\ detoxify_available \in BOOLEAN
    /\ detoxify_scores \in (IF detoxify_available THEN SeqScores ELSE {LowScores})
    /\ _moderator = None
    /\ input_wanted \in SeqWanted
    /\ input_users \in SeqUsers
    /\ encoder_available \in BOOLEAN
    /\ encoder_vectors \in (IF encoder_available THEN SeqVectors
                            ELSE {[c \in CleanedSkills |-> <<5, 0>>]})
    /\ _matcher = None
    /\ call = Idle
    /\ FirstCall
    /\ Sequential
    /\ StoreUnused

\* matching.get_skill_similarity(skill1, skill2)
GetSkillSimilarity ==
    /\ call = Idle
    /\ \E skill1, skill2 \in Skills, encode_raises \in BOOLEAN :
        LET raised == get_matcher = None
        IN /\ _matcher' = get_matcher
           /\ loads' = LoadsAfterGetMatcher
           /\ call' = [op |-> "get_skill_similarity",
                       skill1 |-> skill1,
                       skill2 |-> skill2,
                       encode_raised |-> ~raised /\ encode_raises,
                       raised |-> raised,
                       result |-> IF raised THEN Zero
                                  ELSE get_similarity(<<skill1>>, <<skill2>>,
                                                      encoder_vectors, encode_raises)]
           /\ UNCHANGED <<input_wanted, input_users, encoder_available,
                          encoder_vectors, mod_vars, remembered, thread_vars>>
    /\ UNCHANGED db_vars

\* the call has returned (or raised) to its caller, which goes on to its
\* next call
Return ==
    /\ call # Idle
    /\ call' = Idle
    /\ remembered' \in {remembered, call}
    /\ UNCHANGED <<mod_vars, match_vars, loads, thread_vars>>
    /\ UNCHANGED db_vars

NextSeq ==
    \/ GetModerator \/ ModerateContent \/ IsSpammy \/ SpamGate
    \/ GetMatcher \/ MatchUsers \/ GetSkillSimilarity
    \/ Return

SpecSeq == InitSeq /\ [][NextSeq]_vars

(***************************************************************************)
(* The engines under concurrent callers.  Every thread makes one public    *)
(* call, moderate_content or match_users, on the shared inputs; a step of  *)
(* a thread is one statement of the call, and the interpreter may switch   *)
(* threads between any two of them.  The module globals are shared, the    *)
(* locals of a call live in its own frame.                                 *)
(***************************************************************************)
ThreadIds == 1..MaxThreads

\* a Python object: its attributes and its identity (the thread that made it)
Instance(object, id) == [object |-> object, id |-> id]

\* the locals a call accumulates into: flagged_categories, max_confidence
\* and reasons of moderate_content, matches of match_users
EmptyFrame ==
    [acc |-> [flagged_categories |-> <<>>, max_confidence |-> Zero, reasons |-> <<>>],
     matches |-> <<>>]

\* mutant of FrameOf: the accumulators are attributes of the shared singleton
FrameOf_OnSingleton(t) == 1

\* where thread t keeps the locals of its call: in the frame of that call
FrameOf(t) == t

\* the calls a thread can make, with what inference does in that call
ThreadCalls ==
    {[op |-> "moderate_content", arg |-> "general", env |-> p] : p \in Predictions}
    \cup {[op |-> "match_users", arg |-> 5, env |-> {1}]}

ThreadStart(c) ==
    [op |-> c.op, arg |-> c.arg, env |-> c.env, pc |-> "call",
     made |-> None, got |-> None, i |-> 1, result |-> None]

InitThreads ==
    /\ input_content = <<"stupid", "idiot">>
    /\ detoxify_available \in BOOLEAN
    /\ detoxify_scores = (IF detoxify_available THEN Raised("toxicity", 8)
                         ELSE LowScores)
    /\ _moderator = None
    /\ input_wanted \in SeqWanted
    /\ input_users \in SeqUsers
    /\ encoder_available \in BOOLEAN
    /\ encoder_vectors = [c \in CleanedSkills |-> IF c = "javascript" THEN <<3, 4>>
                                                 ELSE <<5, 0>>]
    /\ _matcher = None
    /\ call = Idle
    /\ FirstCall
    /\ threads \in [ThreadIds -> {ThreadStart(c) : c \in ThreadCalls}]
    /\ frames = [t \in ThreadIds |-> EmptyFrame]
    /\ StoreUnused

\* the module global the call of thread t goes through
GlobalOf(t) == IF threads[t].op = "match_users" THEN _matcher ELSE _moderator

Step(t, th) == threads' = [threads EXCEPT ![t] = th]

\* match_users: the early return; then get_matcher() / get_moderator() up to
\* the test "if _matcher is None"
ThreadEnter(t) ==
    /\ threads[t].pc = "call"
    /\ IF threads[t].op = "match_users" /\ (input_wanted = <<>> \/ input_users = <<>>)
       THEN Step(t, [threads[t] EXCEPT !.pc = "done", !.result = Some(<<>>)])
       ELSE Step(t, [threads[t] EXCEPT !.pc = IF GlobalOf(t) = None THEN "construct"
                                              ELSE "return"])
    /\ UNCHANGED <<mod_vars, match_vars, call, loads, remembered, frames>>
    /\ UNCHANGED db_vars

\* SkillMatcher() / ContentModerator(): the constructor loads the model; the
\* new object is still on the thread's stack
ThreadConstruct(t) ==
    /\ threads[t].pc = "construct"
    /\ IF threads[t].op = "match_users"
       THEN IF encoder_available
            THEN /\ Step(t, [threads[t] EXCEPT !.pc = "assign",
                                                !.made = Some(Instance(SkillMatcher, t))])
                 /\ loads' = [loads EXCEPT !.encoder = @ + 1]
            ELSE /\ Step(t, [threads[t] EXCEPT !.pc = "raised"])
                 /\ loads' = loads
       ELSE /\ Step(t, [threads[t] EXCEPT !.pc = "assign",
                                           !.made = Some(Instance(ContentModerator, t))])
            /\ loads' = IF detoxify_available THEN [loads EXCEPT !.detoxify = @ + 1]
                        ELSE loads
    /\ UNCHANGED <<mod_vars, match_vars, call, remembered, frames>>
    /\ UNCHANGED db_vars

\* the store into the module global
ThreadAssign(t) ==
    /\ threads[t].pc = "assign"
    /\ Step(t, [threads[t] EXCEPT !.pc = "return"])
    /\ IF threads[t].op = "match_users"
       THEN _matcher' = threads[t].made /\ _moderator' = _moderator
       ELSE _moderator' = threads[t].made /\ _matcher' = _matcher
    /\ UNCHANGED <<input_content, detoxify_available, detoxify_scores, input_wanted,
                   input_users, encoder_available, encoder_vectors, call, loads,
                   remembered, frames>>
    /\ UNCHANGED db_vars

\* "return _matcher" / "return _moderator": the global is read again
ThreadReturn(t) ==
    /\ threads[t].pc = "return"
    /\ Step(t, [threads[t] EXCEPT !.pc = "begin", !.got = GlobalOf(t)])
    /\ UNCHANGED <<mod_vars, match_vars, call, loads, remembered, frames>>
    /\ UNCHANGED db_vars

\* moderate_content: the empty-content return, then the three accumulators
\* are set up; match_users: matches = []
ThreadBegin(t) ==
    /\ threads[t].pc = "begin"
    /\ IF threads[t].op = "moderate_content" /\ IsEmptyContent(input_content)
       THEN /\ Step(t, [threads[t] EXCEPT
                           !.pc = "done",
                           !.result = Some(ModerationResult(FALSE, Zero, <<>>,
                                                            "Empty content", None))])
            /\ frames' = frames
       ELSE /\ Step(t, [threads[t] EXCEPT
                           !.pc = IF threads[t].op = "match_users" THEN "loop"
                                  ELSE "spam"])
            /\ frames' = [frames EXCEPT ![FrameOf(t)] = EmptyFrame]
    /\ UNCHANGED <<mod_vars, match_vars, call, loads, remembered>>
    /\ UNCHANGED db_vars

CheckOrder == <<"spam", "toxic", "inappropriate", "suspicious", "aggregate">>
NextCheck(name) == CheckOrder[1 + CHOOSE i \in 1..4 : CheckOrder[i] = name]

\* one check of moderate_content and its "if <check>_result[...]:" block
ThreadCheck(t) ==
    /\ threads[t].pc \in {"spam", "toxic", "inappropriate", "suspicious"}
    /\ LET name == threads[t].pc
           stripped == Strip(input_content)
           detoxify_model == TheValue(threads[t].got).object.detoxify_model
           check ==
               CASE name = "spam" -> _check_spam(stripped)
                 [] name = "toxic" ->
                        _check_toxicity(stripped, detoxify_model, threads[t].env)
                 [] name = "inappropriate" ->
                        _check_inappropriate(stripped, threads[t].arg)
                 [] name = "suspicious" -> _check_suspicious_patterns(stripped)
       IN /\ frames' = [frames EXCEPT ![FrameOf(t)].acc = Collect(@, name, check)]
          /\ Step(t, [threads[t] EXCEPT !.pc = NextCheck(name)])
    /\ UNCHANGED <<mod_vars, match_vars, call, loads, remembered>>
    /\ UNCHANGED db_vars

\* the verdict is built from the accumulators and returned
ThreadAggregate(t) ==
    /\ threads[t].pc = "aggregate"
    /\ Step(t, [threads[t] EXCEPT
                   !.pc = "done",
                   !.result = Some(Aggregate(frames[FrameOf(t)].acc,
                                             Strip(input_content)))])
    /\ UNCHANGED <<mod_vars, match_vars, call, loads, remembered, frames>>
    /\ UNCHANGED db_vars

\* one turn of "for user in all_users": skip, or score and append
ThreadLoop(t) ==
    /\ threads[t].pc = "loop"
    /\ LET i == threads[t].i
           user == input_users[i]
           match_score == get_similarity(input_wanted, TheValue(user.skills_offered),
                                         encoder_vectors, i \in threads[t].env)
           contextual_score == _calculate_contextual_score(user, input_wanted)
           entry == [user |-> user, score |-> FinalScore(match_score, contextual_score)]
       IN /\ frames' = IF Eligible(user)
                       THEN [frames EXCEPT ![FrameOf(t)].matches = Append(@, entry)]
                       ELSE frames
          /\ Step(t, [threads[t] EXCEPT !.i = i + 1,
                                        !.pc = IF i = Len(input_users) THEN "sort"
                                               ELSE "loop"])
    /\ UNCHANGED <<mod_vars, match_vars, call, loads, remembered>>
    /\ UNCHANGED db_vars

\* matches.sort(...) and return matches[:top_k]
ThreadSortSlice(t) ==
    /\ threads[t].pc = "sort"
    /\ Step(t, [threads[t] EXCEPT
                   !.pc = "done",
                   !.result = Some(SliceTo(SortDescending(frames[FrameOf(t)].matches,
                                                          <<>>),
                                           threads[t].arg))])
    /\ UNCHANGED <<mod_vars, match_vars, call, loads, remembered, frames>>
    /\ UNCHANGED db_vars

NextThreads ==
    \E t \in ThreadIds :
        \/ ThreadEnter(t) \/ ThreadConstruct(t) \/ ThreadAssign(t) \/ ThreadReturn(t)
        \/ ThreadBegin(t) \/ ThreadCheck(t) \/ ThreadAggregate(t)
        \/ ThreadLoop(t) \/ ThreadSortSlice(t)

SpecThreads == InitThreads /\ [][NextThreads]_vars

(***************************************************************************)
(* The single checks and the contextual scorer, called on their own.  Init *)
(* draws either a longer text, or scores of the classifier at and above    *)
(* each threshold, or one candidate profile out of every combination of    *)
(* missing, empty and filled fields.                                       *)
(***************************************************************************)
CheckTokens == {"sale", "dating", "adult", "PYTHON", "www.a.io", "a@b.io"}
CheckContents == UNION {[1..n -> CheckTokens] : n \in 0..MaxWords}

\* every label at its threshold or one tenth above it; obscene, which has no
\* threshold, low or at 1.0
CheckScores ==
    {[toxicity |-> Tenths(a), severe_toxicity |-> Tenths(b), obscene |-> Tenths(c),
      threat |-> Tenths(d), insult |-> Tenths(e), identity_attack |-> Tenths(f)] :
        a \in {6, 7}, b \in {3, 4}, c \in {1, 10},
        d \in {5, 6}, e \in {5, 6}, f \in {5, 6}}

SkillsOfLength(n) == [i \in 1..n |-> "Python"]

CheckProfiles ==
    {Profile(name, skills_offered, skills_wanted, availability, location) :
        name \in {None, Some(""), Some("Al")},
        skills_offered \in {None} \cup {Some(SkillsOfLength(n)) : n \in {0, 1, 2, 9, 10, 11}},
        skills_wanted \in {None, Some(<<>>), Some(<<"Python">>)},
        availability \in {None, Some(""), Some("Evenings")},
        location \in {None, Some(""), Some("Delhi")}}

InitChecks ==
    /\ \/ /\ input_content \in CheckContents
          /\ detoxify_scores = LowScores
          /\ input_users = <<>>
       \/ /\ input_content = <<"PYTHON">>
          /\ detoxify_scores \in CheckScores
          /\ input_users = <<>>
       \/ /\ input_content = <<>>
          /\ detoxify_scores = LowScores
          /\ input_users \in {WithIds(<<p>>) : p \in CheckProfiles}
    /\ detoxify_available = TRUE
    /\ _moderator = None
    /\ input_wanted = <<"Python">>
    /\ encoder_available = TRUE
    /\ encoder_vectors = [c \in CleanedSkills |-> <<5, 0>>]
    /\ _matcher = None
    /\ call = Idle
    /\ FirstCall
    /\ Sequential
    /\ StoreUnused

\* get_moderator()._check_spam(content)
CheckSpam ==
    /\ call = Idle
    /\ _moderator' = get_moderator
    /\ loads' = LoadsAfterGetModerator
    /\ call' = [op |-> "_check_spam", result |-> _check_spam(input_content)]
    /\ UNCHANGED <<input_content, detoxify_available, detoxify_scores, match_vars,
                   remembered, thread_vars, db_vars>>

\* get_moderator()._check_toxicity(content)
CheckToxicity ==
    /\ call = Idle
    /\ \E p \in Predictions :
        LET moderator == TheValue(get_moderator)
        IN /\ _moderator' = Some(moderator_after(moderator, p))
           /\ call' = [op |-> "_check_toxicity",
                       prediction |-> p,
                       result |-> _check_toxicity(input_content,
                                                  moderator.detoxify_model, p)]
    /\ loads' = LoadsAfterGetModerator
    /\ UNCHANGED <<input_content, detoxify_available, detoxify_scores, match_vars,
                   remembered, thread_vars, db_vars>>

\* get_moderator()._check_inappropriate(content, content_type)
CheckInappropriate ==
    /\ call = Idle
    /\ \E content_type \in ContentTypes :
        call' = [op |-> "_check_inappropriate",
                 content_type |-> content_type,
                 result |-> _check_inappropriate(input_content, content_type)]
    /\ _moderator' = get_moderator
    /\ loads' = LoadsAfterGetModerator
    /\ UNCHANGED <<input_content, detoxify_available, detoxify_scores, match_vars,
                   remembered, thread_vars, db_vars>>

\* matching._calculate_contextual_score(user, wanted_skills)
CalculateContextualScore ==
    /\ call = Idle
    /\ \E i \in 1..Len(input_users) :
        call' = [op |-> "_calculate_contextual_score",
                 user |-> i,
                 result |-> _calculate_contextual_score(input_users[i], input_wanted)]
    /\ UNCHANGED <<mod_vars, match_vars, loads, remembered, thread_vars, db_vars>>

NextChecks ==
    CheckSpam \/ CheckToxicity \/ CheckInappropriate \/ CalculateContextualScore

SpecChecks == InitChecks /\ [][NextChecks]_vars

(***************************************************************************)
(* database.py with the mock store, and the pages of app.py that use it.   *)
(* mock_users is the dict of one SupabaseClient in insertion order;        *)
(* session is st.session_state["user"].  app.py runs from its first line   *)
(* for every page interaction, and its line db = SupabaseClient() builds a *)
(* new store each time; st.session_state outlives the runs.                *)
(***************************************************************************)
Emails == {"alice@example.com", "carol@example.com"}
Passwords == {"alice123", "pw"}

\* hashlib.sha256(password.encode()).hexdigest(): one digest per password
_hash_password(password) == <<"sha256", password>>
_verify_password(password, hashed) == _hash_password(password) = hashed

IdsOf(users) == {users[i].id : i \in 1..Len(users)}
SessionIds == {u.id : u \in session}

\* str(uuid.uuid4()): an id that no record within reach carries; ids are
\* only ever compared, so the least unused number stands for it
FreshId(used) ==
    CHOOSE i \in 1..(Cardinality(used) + 1) :
        i \notin used /\ \A j \in 1..(i - 1) : j \in used

\* the sample_users of _init_mock_data, stored under new ids
_init_mock_data ==
    LET alice == FreshId(SessionIds)
        bob == FreshId(SessionIds \cup {alice})
    IN <<[id |-> alice, name |-> Some("Alice Johnson"),
          email |-> "alice@example.com",
          password_hash |-> _hash_password("alice123"),
          location |-> Some("Delhi"),
          skills_offered |-> Some(<<"Python", "Data Science">>),
          skills_wanted |-> Some(<<"React">>),
          availability |-> Some("Evenings")],
         [id |-> bob, name |-> Some("Bob Verma"),
          email |-> "bob@example.com",
          password_hash |-> _hash_password("bob123"),
          location |-> Some("Mumbai"),
          skills_offered |-> Some(<<"React", "JavaScript">>),
          skills_wanted |-> Some(<<"Python">>),
          availability |-> Some("Weekends")]>>

\* the first stored user with this email whose password hash matches
authenticate_user(users, email, password) ==
    LET found == SelectSeq(users, LAMBDA user :
                     user.email = email /\ _verify_password(password, user.password_hash))
    IN IF found = <<>> THEN None ELSE Some(Head(found))

\* the store after create_user; the new user is its last entry
create_user(users, user_profile, password) ==
    Append(users,
           [id |-> FreshId(IdsOf(users) \cup SessionIds),
            name |-> Some(user_profile.name),
            email |-> user_profile.email,
            password_hash |-> _hash_password(password),
            location |-> Some(user_profile.location),
            skills_offered |-> Some(user_profile.skills_offered),
            skills_wanted |-> Some(user_profile.skills_wanted),
            availability |-> Some(user_profile.availability)])

\* exclude_id is None or an id; an id is a non-empty string, which is truthy
get_all_users(users, exclude_id) ==
    IF exclude_id # None
    THEN SelectSeq(users, LAMBDA u : u.id # TheValue(exclude_id))
    ELSE users

\* the parts of a comma-separated form field, and part.strip()
FormParts == {"Python", " React", " "}
StripPart(part) ==
    CASE part = " React" -> "React" [] part = " " -> "" [] OTHER -> part

\* [s.strip() for s in field.split(",") if s.strip()]
ParseSkills(parts) ==
    SelectSeq([i \in 1..Len(parts) |-> StripPart(parts[i])], LAMBDA part : part # "")

\* what a visitor submits on the Register page
RegisterForms ==
    {[name |-> "Carol", email |-> email, password |-> password, location |-> "",
      availability |-> "Mornings",
      skills_offered |-> <<"Python", " React">>, skills_wanted |-> <<" ">>] :
        email \in Emails, password \in Passwords}

\* UserProfile(name=name, ..., skills_offered=[...], skills_wanted=[...])
UserProfile(form) ==
    [name |-> form.name, email |-> form.email, password |-> form.password,
     location |-> form.location, availability |-> form.availability,
     skills_offered |-> ParseSkills(form.skills_offered),
     skills_wanted |-> ParseSkills(form.skills_wanted)]

\* the embeddings of the skills the stored profiles name
StoreVectors ==
    [c \in {"pythonthon", "data science", "react", "javascript"} |->
        CASE c = "pythonthon" -> <<5, 0>> [] c = "data science" -> <<3, 4>>
          [] c = "react" -> <<-5, 0>> [] OTHER -> <<3, 4>>]

InitStore ==
    /\ session = None
    /\ mock_users = _init_mock_data
    /\ input_content = <<>>
    /\ detoxify_available = TRUE
    /\ detoxify_scores \in {LowScores, Raised("insult", 6)}
    /\ _moderator = None
    /\ input_wanted = <<>>
    /\ input_users = <<>>
    /\ encoder_available \in BOOLEAN
    /\ encoder_vectors = StoreVectors
    /\ _matcher = None
    /\ call = Idle
    /\ FirstCall
    /\ Sequential

\* db.create_user(user_profile, password) on the store as it is
CreateUser ==
    /\ Len(mock_users) < MaxStored
    /\ \E form \in RegisterForms :
        /\ mock_users' = create_user(mock_users, UserProfile(form), form.password)
        /\ call' = [op |-> "create_user",
                    email |-> form.email,
                    result |-> FreshId(IdsOf(mock_users) \cup SessionIds)]
    /\ UNCHANGED <<session, mod_vars, match_vars, loads, remembered, thread_vars>>

\* db.authenticate_user(email, password) on the store as it is
AuthenticateUser ==
    /\ \E email \in Emails, password \in Passwords :
        call' = [op |-> "authenticate_user",
                 email |-> email,
                 result |-> authenticate_user(mock_users, email, password)]
    /\ UNCHANGED <<db_vars, mod_vars, match_vars, loads, remembered, thread_vars>>

\* a run of app.py on the Register page with the form submitted: the spam
\* gate on the joined text, then create_user; no look-up of the email
RegisterPage ==
    /\ loads.detoxify < MaxLoads
    /\ \E form \in RegisterForms, p \in Predictions :
        LET db == _init_mock_data
            created == ~p.raised /\ ~spam_filter_is_spammy(p)
        IN /\ mock_users' = IF created
                            THEN create_user(db, UserProfile(form), form.password)
                            ELSE db
           /\ call' = [op |-> "Register",
                       email |-> form.email,
                       raised |-> p.raised,
                       created |-> created]
    /\ loads' = [loads EXCEPT !.detoxify = @ + 1]
    /\ UNCHANGED <<session, mod_vars, match_vars, remembered, thread_vars>>

\* a run of app.py on the Login page with the form submitted
LoginPage ==
    /\ \E email \in Emails, password \in Passwords :
        LET db == _init_mock_data
            user == authenticate_user(db, email, password)
        IN /\ mock_users' = db
           /\ session' = IF user # None THEN user ELSE session
           /\ call' = [op |-> "Login", email |-> email, result |-> user]
    /\ UNCHANGED <<mod_vars, match_vars, loads, remembered, thread_vars>>

\* a run of app.py on the Explore Matches page
ExploreMatchesPage ==
    /\ LET db == _init_mock_data
       IN IF session = None
          THEN /\ mock_users' = db
               /\ call' = [op |-> "Explore Matches", logged_in |-> FALSE]
               /\ UNCHANGED <<_matcher, loads>>
          ELSE LET current_user == TheValue(session)
                   skills_wanted == IF current_user.skills_wanted = None THEN <<>>
                                    ELSE TheValue(current_user.skills_wanted)
                   all_users == get_all_users(db, Some(current_user.id))
                   early == skills_wanted = <<>> \/ all_users = <<>>
                   raised == ~early /\ get_matcher = None
               IN \E failing \in SUBSET (1..Len(all_users)) :
                    /\ _matcher' = IF early THEN _matcher ELSE get_matcher
                    /\ loads' = IF early THEN loads ELSE LoadsAfterGetMatcher
                    /\ mock_users' =
                         IF early \/ raised THEN db
                         ELSE [i \in 1..Len(db) |->
                                 IF db[i].id \in IdsOf(all_users)
                                 THEN all_users_after_scoring(<<db[i]>>)[1]
                                 ELSE db[i]]
                    /\ call' = [op |-> "Explore Matches",
                                logged_in |-> TRUE,
                                all_users |-> all_users,
                                raised |-> raised,
                                matches |-> IF raised THEN <<>>
                                            ELSE match_users(skills_wanted, all_users, 5,
                                                             encoder_vectors,
                                                             IF early THEN {} ELSE failing)]
    /\ UNCHANGED <<session, mod_vars, input_wanted, input_users, encoder_available,
                   encoder_vectors, remembered, thread_vars>>

NextStore ==
    CreateUser \/ AuthenticateUser \/ RegisterPage \/ LoginPage \/ ExploreMatchesPage

SpecStore == InitStore /\ [][NextStore]_vars

(***************************************************************************)
(* Properties of the single checks and of the contextual scorer.           *)
(***************************************************************************)
ScoredProfile == input_users[call.user]

\* the contextual score spelled out in four-hundredths: 0.2 = 80, 0.1 = 40,
\* 0.3 of a quarter = 30, 0.2 of a tenth = 8
SignalSum(user) ==
    (IF TruthyText(user.availability) THEN 80 ELSE 0)
    + (IF TruthyText(user.location) THEN 40 ELSE 0)
    + 30 * Cardinality({f \in {"name", "availability"} : TruthyText(user[f])}
                       \cup {f \in {"skills_offered", "skills_wanted"} : TruthyList(user[f])})
    + (IF TruthyList(user.skills_offered)
       THEN 8 * (10 - IntMax(10 - Len(TheValue(user.skills_offered)), 0)) ELSE 0)
    + (IF TruthyList(user.skills_wanted) THEN 40 ELSE 0)

\* the signals that applied; profile completeness always does
SignalCount(user) ==
    1 + Cardinality({f \in {"availability", "location"} : TruthyText(user[f])}
                    \cup {f \in {"skills_offered", "skills_wanted"} : TruthyList(user[f])})

\* C22: for every candidate profile the contextual score is 0.2 (availability)
\* + 0.1 (location) + 0.3 * fraction of filled fields + 0.2 * min(offered
\* count / 10, 1) (any offered skill) + 0.1 (any wanted skill), divided by the
\* number of signals that applied, and lies in [0, 1].
C22_ContextualScoreFormula ==
    call.op = "_calculate_contextual_score"
        => /\ call.result = Rat(SignalSum(ScoredProfile), 400 * SignalCount(ScoredProfile))
           /\ RLe(Zero, call.result)
           /\ RLe(call.result, One)

\* a complete profile with eleven offered skills: the diversity signal is capped
C22_Witness ==
    /\ call.op = "_calculate_contextual_score"
    /\ TruthyList(ScoredProfile.skills_offered)
    /\ Len(TheValue(ScoredProfile.skills_offered)) = 11
    /\ SignalCount(ScoredProfile) = 5
    /\ call.result = Rat(9, 50)

ClassifierPathCheck ==
    /\ call.op = "_check_toxicity"
    /\ ~call.prediction.raised

\* C23: on the classifier path the toxicity check flags exactly when
\* toxicity > 0.6 or severe_toxicity > 0.3 or threat > 0.5 or insult > 0.5 or
\* identity_attack > 0.5; the obscene score never decides.
C23_ToxicThresholds ==
    ClassifierPathCheck
        => (call.result.flag
              <=> \/ detoxify_scores["toxicity"] \notin {Tenths(n) : n \in 0..6}
                  \/ detoxify_scores["severe_toxicity"] \notin {Tenths(n) : n \in 0..3}
                  \/ \E k \in {"threat", "insult", "identity_attack"} :
                        detoxify_scores[k] \notin {Tenths(n) : n \in 0..5})

\* obscene at 1.0 with every other label exactly at its threshold: not flagged
C23_Witness ==
    /\ ClassifierPathCheck
    /\ detoxify_scores["obscene"] = One
    /\ detoxify_scores["toxicity"] = Tenths(6)
    /\ detoxify_scores["severe_toxicity"] = Tenths(3)
    /\ \A k \in {"threat", "insult", "identity_attack"} : detoxify_scores[k] = Tenths(5)
    /\ ~call.result.flag

KeywordHits == Cardinality(HitsIn(TokenSpamKeywords, input_content))
PatternHits == Cardinality(HitsIn(TokenSpamPatterns, input_content))
WordCount == Len(Split(input_content))

\* C24: the spam check flags exactly when keyword hits >= 2, or keyword hits /
\* word count > 0.3, or pattern hits >= 2, and its confidence is
\* min(spam_ratio * 2 + pattern_matches * 0.3, 1.0).
C24_SpamRule ==
    call.op = "_check_spam"
        => LET words == IntMax(WordCount, 1)
               twentieths == 20 * KeywordHits + 3 * PatternHits * words
           IN /\ call.result.flag
                   <=> \/ KeywordHits >= 2
                       \/ 10 * KeywordHits > 3 * words
                       \/ PatternHits >= 2
              /\ call.result.confidence
                   = IF twentieths >= 10 * words THEN One
                     ELSE Rat(twentieths, 10 * words)

\* one keyword in four words: a ratio of 0.25, not spam, confidence 0.5
C24_Witness ==
    /\ call.op = "_check_spam"
    /\ KeywordHits = 1
    /\ WordCount = 4
    /\ PatternHits = 0
    /\ ~call.result.flag
    /\ call.result.confidence = Rat(1, 2)

\* C25: content flagged inappropriate under 'message', 'profile' or 'general'
\* is flagged under 'skill' too, with a confidence at least as high; dating
\* keywords are flagged under 'skill' only.
C25_SkillStricter ==
    call.op = "_check_inappropriate"
        => LET skill == _check_inappropriate(input_content, "skill")
           IN /\ \A content_type \in ContentTypes \ {"skill"} :
                    LET other == _check_inappropriate(input_content, content_type)
                    IN other.flag
                         => skill.flag /\ RLe(other.confidence, skill.confidence)
              /\ (/\ HitsIn(TokenInappropriate("dating"), input_content) # {}
                  /\ HitsIn(TokenInappropriate("adult"), input_content) = {})
                    => /\ skill.flag
                       /\ \A content_type \in ContentTypes \ {"skill"} :
                            ~_check_inappropriate(input_content, content_type).flag
              /\ call.result = _check_inappropriate(input_content, call.content_type)

\* a dating keyword and nothing else: flagged under 'skill' and under no
\* other content type
C25_Witness ==
    /\ call.op = "_check_inappropriate"
    /\ call.content_type = "skill"
    /\ HitsIn(TokenInappropriate("dating"), input_content) # {}
    /\ call.result.flag
    /\ call.result.confidence = Tenths(3)
    /\ ~_check_inappropriate(input_content, "general").flag

\* the profile with one previously empty field filled in, or with one more
\* offered skill
Improvements(user) ==
    {[user EXCEPT !.availability = Some("Evenings")] : x \in {1} \cap
        (IF TruthyText(user.availability) THEN {} ELSE {1})}
    \cup {[user EXCEPT !.location = Some("Delhi")] : x \in {1} \cap
        (IF TruthyText(user.location) THEN {} ELSE {1})}
    \cup {[user EXCEPT !.name = Some("Al")] : x \in {1} \cap
        (IF TruthyText(user.name) THEN {} ELSE {1})}
    \cup {[user EXCEPT !.skills_wanted = Some(<<"Python">>)] : x \in {1} \cap
        (IF TruthyList(user.skills_wanted) THEN {} ELSE {1})}
    \cup {[user EXCEPT !.skills_offered =
              Some(Append(IF user.skills_offered = None THEN <<>>
                          ELSE TheValue(user.skills_offered), "Python"))]}

\* C26: filling in an empty field (availability, location, name,
\* skills_wanted) or adding one more offered skill never lowers the contextual
\* score, and so never lowers the match score for a fixed similarity.
C26_ImprovementNeverLowers ==
    call.op = "_calculate_contextual_score"
        => \A better \in Improvements(ScoredProfile) :
              LET improved == _calculate_contextual_score(better, input_wanted)
              IN /\ RLe(call.result, improved)
                 /\ RLe(FinalScore(Tenths(5), call.result),
                        FinalScore(Tenths(5), improved))

(***************************************************************************)
(* Properties of the mock store and of the pages that use it.              *)
(***************************************************************************)
\* C29: after any sequence of create_user calls no two stored users share an
\* email, so authenticate_user(email, password) can only return the one
\* account registered under that email.
C29_OneAccountPerEmail ==
    /\ \A i, j \in 1..Len(mock_users) :
          mock_users[i].email = mock_users[j].email => i = j
    /\ (call.op = "authenticate_user" /\ call.result # None)
          => \A i \in 1..Len(mock_users) :
                mock_users[i].email = call.email
                    => mock_users[i] = TheValue(call.result)

\* two records are the same account when they differ in nothing but the id
SameAccount(u, v) == [u EXCEPT !.id = 0] = [v EXCEPT !.id = 0]

\* C30: on the Explore Matches page the logged-in user is not in their own
\* match list: get_all_users(exclude_id) returns no record with that id, and
\* match_users returns only records of the list it was given, each at most
\* once.
C30_NotInOwnMatches ==
    (call.op = "Explore Matches" /\ call.logged_in /\ ~call.raised)
        => LET current_user == TheValue(session)
               matches == call.matches
           IN /\ \A i \in 1..Len(matches) :
                    ~SameAccount(matches[i].user, current_user)
              /\ \A i \in 1..Len(call.all_users) :
                    call.all_users[i].id # current_user.id
              /\ \A i \in 1..Len(matches) :
                    \E j \in 1..Len(call.all_users) :
                        matches[i].user = call.all_users[j]
              /\ \A i, k \in 1..Len(matches) :
                    matches[i].user = matches[k].user => i = k

(***************************************************************************)
(* Properties of the moderation engine.                                    *)
(***************************************************************************)
Moderated == call.op = "moderate_content"
Stripped == Strip(input_content)

\* the four checks as they decide the text of the call, by name
CheckOf(name) ==
    CASE name = "spam" -> _check_spam(Stripped)
      [] name = "toxic" -> _check_toxicity(Stripped, call.detoxify_model, call.prediction)
      [] name = "inappropriate" -> _check_inappropriate(Stripped, call.content_type)
      [] name = "suspicious" -> _check_suspicious_patterns(Stripped)
CheckNames == {"spam", "toxic", "inappropriate", "suspicious"}
FlaggedChecks == {n \in CheckNames : CheckOf(n).flag}
CategorySet(v) == {v.categories[i] : i \in 1..Len(v.categories)}

\* C1: every verdict moderate_content returns has is_flagged true exactly
\* when its categories are non-empty.
C1_FlaggedIffCategories ==
    Moderated => (call.result.is_flagged <=> Len(call.result.categories) > 0)

C1_Witness ==
    /\ Moderated
    /\ call.result.is_flagged
    /\ Len(call.result.categories) >= 2
    /\ RLt(call.result.confidence, Tenths(5))

\* C2: for text that passes the empty-content return, all four checks run,
\* is_flagged holds iff some check flagged, categories holds the names of the
\* checks that flagged, each once, and confidence is the maximum of the
\* confidences of the checks that flagged (0.0 when none did).
C2_ChecksUnioned ==
    (Moderated /\ ~IsEmptyContent(input_content)) =>
        LET v == call.result IN
        /\ call.checks_run = <<"spam", "toxic", "inappropriate", "suspicious">>
        /\ v.is_flagged <=> FlaggedChecks # {}
        /\ CategorySet(v) = FlaggedChecks
        /\ Len(v.categories) = Cardinality(FlaggedChecks)
        /\ \A n \in FlaggedChecks : RLe(CheckOf(n).confidence, v.confidence)
        /\ FlaggedChecks # {} => \E n \in FlaggedChecks : CheckOf(n).confidence = v.confidence
        /\ FlaggedChecks = {} => v.confidence = Zero

\* two checks flagged, the earlier one with the higher confidence, and a check
\* that did not flag computed a higher confidence still
C2_Witness ==
    /\ Moderated
    /\ ~IsEmptyContent(input_content)
    /\ {"inappropriate", "suspicious"} \subseteq FlaggedChecks
    /\ RLt(CheckOf("suspicious").confidence, CheckOf("inappropriate").confidence)
    /\ "toxic" \notin FlaggedChecks
    /\ RLt(call.result.confidence, CheckOf("toxic").confidence)

\* C3: moderation.is_spammy returns True exactly when the verdict of
\* moderate_content for the same text is flagged with 'spam' or 'suspicious'
\* among its categories, and False for empty text.
C3_IsSpammyIffSpamOrSuspicious ==
    call.op = "is_spammy" =>
        LET v == moderate_content(input_content, "general", call.detoxify_model,
                                  call.prediction).result
        IN /\ call.result = (/\ v.is_flagged
                             /\ CategorySet(v) \cap {"spam", "suspicious"} # {})
           /\ input_content = <<>> => call.result = FALSE

\* a verdict flagged as toxic only: is_spammy says False
C3_Witness ==
    /\ call.op = "is_spammy"
    /\ call.result = FALSE
    /\ call.prediction # NotCalled
    /\ moderate_content(input_content, "general", call.detoxify_model,
                        call.prediction).result.categories = <<"toxic">>

\* C4: for text whose verdict is flagged with neither 'spam' nor 'suspicious'
\* among the categories, the is_spammy the Register and add-skills pages call
\* returns False.
C4_GateNarrow ==
    (call.op = "spam_filter.is_spammy" /\ ~call.prediction.raised) =>
        \A content_type \in ContentTypes :
            LET v == moderate_content(input_content, content_type,
                                      Some("Detoxify('original')"),
                                      call.prediction).result
            IN (v.is_flagged /\ CategorySet(v) \cap {"spam", "suspicious"} = {})
                   => call.result = FALSE

\* C5 as stated: the reason of the empty verdict is "empty content".
C5_EmptyReasonLowercase ==
    (Moderated /\ IsEmptyContent(input_content)) =>
        /\ call.result = ModerationResult(FALSE, Zero, <<>>, "empty content", None)
        /\ call.checks_run = <<>>
        /\ call.prediction = NotCalled

\* C5, amended: for empty or whitespace-only text moderate_content returns a
\* non-flagged verdict with confidence 0, no categories, no cleaned content and
\* the reason "Empty content", and runs none of the checks nor the classifier.
C5_EmptyContent ==
    (Moderated /\ (input_content = <<>> \/ Split(input_content) = <<>>)) =>
        /\ call.result = ModerationResult(FALSE, Zero, <<>>, "Empty content", None)
        /\ call.checks_run = <<>>
        /\ call.prediction = NotCalled

\* whitespace-only text, moderated where the classifier is loaded
C5_Witness ==
    /\ Moderated
    /\ input_content # <<>>
    /\ Split(input_content) = <<>>
    /\ call.detoxify_model # None
    /\ call.result.reason = "Empty content"

\* C6: a verdict carries cleaned_content only when it is not flagged, and
\* every text that passes the empty-content return and that no check flags
\* gets a cleaned_content.
C6_CleanedOnlyWhenUnflagged ==
    Moderated =>
        /\ call.result.cleaned_content # None => ~call.result.is_flagged
        /\ (~IsEmptyContent(input_content) /\ FlaggedChecks = {})
               => call.result.cleaned_content # None

C6_Witness ==
    /\ Moderated
    /\ ~call.result.is_flagged
    /\ call.result.cleaned_content = Some("Python Python")

\* C8: the confidence of every verdict lies in [0,1], with the classifier and
\* with the rule-based fallback.
C8_ConfidenceBounds ==
    Moderated =>
        /\ RLe(Zero, call.result.confidence)
        /\ RLe(call.result.confidence, One)

\* the fallback path, with a sum that the cap cuts down to 1.0
C8_Witness ==
    /\ Moderated
    /\ call.detoxify_model = None
    /\ call.result.confidence = One
    /\ "toxic" \in CategorySet(call.result)

\* C15: when the classifier is not loaded, or its predict raises in the call,
\* moderate_content still returns a verdict and the toxic category is decided
\* by the rules: at least one toxic pattern, or at least two profanity words.
C15_FallbackDecidesToxic ==
    (Moderated /\ (call.detoxify_model = None \/ call.prediction = PredictRaised))
        => /\ call.result.reason # ""
           /\ "toxic" \in CategorySet(call.result)
                  <=> \/ Cardinality(HitsIn(TokenToxicPatterns, Stripped)) >= 1
                      \/ Cardinality(HitsIn(TokenProfanity, Stripped)) >= 2

\* the classifier is loaded, predict raises, and two profanity words without
\* a toxic pattern make the verdict toxic
C15_Witness ==
    /\ Moderated
    /\ call.detoxify_model # None
    /\ call.prediction = PredictRaised
    /\ HitsIn(TokenToxicPatterns, Stripped) = {}
    /\ "toxic" \in CategorySet(call.result)

\* C27: a verdict whose categories include 'toxic' explains the finding: the
\* toxicity check's reason in it is never "No toxicity detected".
C27_ToxicReasonExplains ==
    (Moderated /\ "toxic" \in CategorySet(call.result))
        => /\ CheckOf("toxic").reason # "No toxicity detected"
           /\ call.result.reason # "No toxicity detected"

\* C28: a verdict's confidence is 0 exactly when the verdict is not flagged.
C28_ZeroIffUnflagged ==
    Moderated => (call.result.confidence = Zero <=> ~call.result.is_flagged)

\* an unflagged verdict although the toxicity check computed a confidence
\* above 0
C28_Witness ==
    /\ Moderated
    /\ ~IsEmptyContent(input_content)
    /\ ~call.result.is_flagged
    /\ RLt(Zero, CheckOf("toxic").confidence)
    /\ call.result.confidence = Zero

(***************************************************************************)
(* Properties of the matching engine, stated over a match_users call that  *)
(* returned.                                                               *)
(***************************************************************************)
Matched == call.op = "match_users" /\ ~call.raised

\* the positions of the candidates with a non-empty skills_offered
WithSkills == {i \in 1..Len(input_users) : TruthyList(input_users[i].skills_offered)}

Min(a, b) == IF a < b THEN a ELSE b

NonIncreasing(matches) ==
    \A i \in 1..(Len(matches) - 1) : RLe(matches[i + 1].score, matches[i].score)

\* C7: every score match_users returns lies in [0,1], whatever cosine
\* similarity in [-1,1] the encoder yields.
C7_ScoresInUnitInterval ==
    Matched =>
        \A i \in 1..Len(call.result) :
            /\ RLe(Zero, call.result[i].score)
            /\ RLe(call.result[i].score, One)

\* C9 as stated: for every integer k, match_users returns at most
\* min(k, number of candidates with non-empty skills_offered) results, in
\* non-increasing order of score.
C9_TopKEveryInteger ==
    Matched =>
        /\ Len(call.result) <= Min(call.top_k, Cardinality(WithSkills))
        /\ NonIncreasing(call.result)

\* C9 amended: the returned scores are in non-increasing order for every
\* integer k, and for every k >= 0 match_users returns at most
\* min(k, number of candidates with non-empty skills_offered) results.
C9_TopKNonNegative ==
    Matched =>
        /\ NonIncreasing(call.result)
        /\ call.top_k >= 0 =>
               Len(call.result) <= Min(call.top_k, Cardinality(WithSkills))

\* two candidates scored, the second one ahead of the first, and k = 1
\* keeps only the one the sort moved to the front
C9_Witness ==
    /\ Matched
    /\ call.top_k = 1
    /\ Cardinality(WithSkills) = 2
    /\ Len(call.result) = 1
    /\ call.result[1].user.id = 2

\* C10: a candidate whose skills_offered is empty or missing is in no
\* result of match_users.
C10_SkillLessExcluded ==
    Matched =>
        \A i \in 1..Len(call.result) : call.result[i].user.id \in WithSkills

\* a candidate with skills_offered = [] next to one that is returned
C10_Witness ==
    /\ Matched
    /\ \E i \in 1..Len(input_users) : input_users[i].skills_offered = Some(<<>>)
    /\ Len(call.result) = 1

\* C11: in the result of match_users a candidate with a strictly higher score
\* precedes one with a lower score, and candidates with equal score keep the
\* relative order they have in the input list.
C11_StableDescending ==
    Matched =>
        \A i, j \in 1..Len(call.result) :
            i < j =>
                /\ RLe(call.result[j].score, call.result[i].score)
                /\ call.result[i].score = call.result[j].score
                       => call.result[i].user.id < call.result[j].user.id

\* two candidates tie and both are returned
C11_Witness ==
    /\ Matched
    /\ Len(call.result) = 2
    /\ call.result[1].score = call.result[2].score
    /\ call.result[1].user.id = 1

\* C13: when the embedding model fails to load, match_users returns an empty
\* result and raises nothing, for every non-empty wanted list and candidate
\* list.
C13_LoadFailureEmpty ==
    (call.op = "match_users" /\ ~encoder_available
         /\ input_wanted # <<>> /\ input_users # <<>>)
        => (~call.raised /\ call.result = <<>>)

\* C14: a match_users call in which encoding fails returns an empty result,
\* not a ranking of candidates.
C14_EncodeFailureEmpty ==
    (Matched /\ call.failing \cap WithSkills # {}) => call.result = <<>>

\* C20: a match_users call leaves the caller's candidate list, every
\* candidate record and the wanted-skills list as they were before the call.
C20_InputsUnchanged ==
    [][(call.op = "none" /\ call'.op = "match_users")
           => (input_users' = input_users /\ input_wanted' = input_wanted)]_vars

\* a call that scored and returned a candidate whose record lacks
\* skills_wanted, and the record still lacks it
C20_Witness ==
    /\ Matched
    /\ \E i \in 1..Len(call.result) :
           /\ call.result[i].user.skills_wanted = None
           /\ input_users[call.result[i].user.id] = call.result[i].user

\* C21: match_users returns an empty list whenever the wanted-skills list or
\* the candidate list is empty, for every k.
C21_EmptyInputsEmptyResult ==
    (call.op = "match_users" /\ (input_wanted = <<>> \/ input_users = <<>>))
        => (~call.raised /\ call.result = <<>>)

\* no wanted skills, a candidate that offers skills, and k = 5
C21_Witness ==
    /\ call.op = "match_users"
    /\ input_wanted = <<>>
    /\ WithSkills # {}
    /\ call.top_k = 5
    /\ call.result = <<>>

(***************************************************************************)
(* Properties of the process over a sequence of calls: call is the last    *)
(* call, remembered an earlier one.                                        *)
(***************************************************************************)
\* inference failed inside the call c and was caught there
InferenceFailed(c) ==
    CASE c.op \in {"moderate_content", "is_spammy"} -> c.prediction = PredictRaised
      [] c.op = "match_users" -> ~c.raised /\ c.failing \cap WithSkills # {}
      [] c.op = "get_skill_similarity" -> c.encode_raised
      [] OTHER -> FALSE

\* inference ran in the call c and succeeded
InferenceSucceeded(c) ==
    CASE c.op \in {"moderate_content", "is_spammy"} -> c.prediction.outcome = "returned"
      [] c.op = "match_users" ->
             ~c.raised /\ WithSkills # {} /\ c.failing \cap WithSkills = {}
      [] c.op = "get_skill_similarity" -> ~c.raised /\ ~c.encode_raised
      [] OTHER -> FALSE

LoadedClassifier == [detoxify_model |-> Some("Detoxify('original')")]
LoadedEncoder == [model |-> "all-MiniLM-L6-v2"]

\* what the call c returns in a process that never saw a failure: the
\* verdict from the classifier's scores, the ranking from the encoder's vectors
ModelBasedResult(c) ==
    CASE c.op = "moderate_content" ->
             moderate_content(input_content, c.content_type, Some("Detoxify('original')"),
                              PredictReturned(detoxify_scores)).result
      [] c.op = "is_spammy" ->
             is_spammy(input_content, Some("Detoxify('original')"),
                       PredictReturned(detoxify_scores)).result
      [] c.op = "match_users" ->
             match_users(input_wanted, input_users, c.top_k, encoder_vectors, {})
      [] c.op = "get_skill_similarity" ->
             get_similarity(<<c.skill1>>, <<c.skill2>>, encoder_vectors, FALSE)

\* C16: an inference failure in a call leaves the cached model handle as it
\* was, and a later call in which inference succeeds returns the model-based
\* result, the one it returns where no failure ever happened.
C16_FailureDoesNotPoison ==
    /\ (call.op \in {"moderate_content", "is_spammy"} /\ InferenceFailed(call))
           => _moderator = Some(LoadedClassifier)
    /\ (call.op \in {"match_users", "get_skill_similarity"} /\ InferenceFailed(call))
           => _matcher = Some(LoadedEncoder)
    /\ (InferenceFailed(remembered) /\ InferenceSucceeded(call))
           => call.result = ModelBasedResult(call)

\* predict raised in an earlier moderate_content call, the later one got the
\* classifier's scores and returns another verdict than the fallback gave
C16_Witness ==
    /\ remembered.op = "moderate_content"
    /\ InferenceFailed(remembered)
    /\ call.op = "moderate_content"
    /\ InferenceSucceeded(call)
    /\ call.content_type = remembered.content_type
    /\ call.result # remembered.result

\* C17: across a sequence of public calls each pretrained model is loaded at
\* most once in the process.
C17_LoadedOnce == loads.encoder <= 1 /\ loads.detoxify <= 1

\* the two calls are calls of the same function with the same arguments
SameInputs(c1, c2) ==
    /\ c1.op = c2.op
    /\ CASE c1.op = "moderate_content" -> c1.content_type = c2.content_type
         [] c1.op = "match_users" -> c1.top_k = c2.top_k
         [] OTHER -> FALSE

\* C19: with the same model, two match_users calls, and two moderate_content
\* calls, on identical inputs return identical outputs (in both inference
\* did not fail), whatever calls were made in between.
C19_Deterministic ==
    (SameInputs(remembered, call)
         /\ ~InferenceFailed(remembered) /\ ~InferenceFailed(call))
        => /\ call.result = remembered.result
           /\ call.op = "match_users" => call.raised = remembered.raised

\* the first match_users call of the process, which loaded the encoder, and
\* a later one with the same k, both returning the same two-entry ranking
C19_Witness ==
    /\ SameInputs(remembered, call)
    /\ call.op = "match_users"
    /\ InferenceSucceeded(remembered) /\ InferenceSucceeded(call)
    /\ Len(call.result) = 2
    /\ call.result = remembered.result
    /\ loads.encoder = 1

(***************************************************************************)
(* Properties of the engines under concurrent callers.                     *)
(***************************************************************************)
\* the threads whose get_matcher() / get_moderator() has returned
Received(op) == {t \in ThreadIds : threads[t].op = op /\ threads[t].got # None}

\* C12: when several threads make their first get_matcher() or
\* get_moderator() call at the same time, each model is constructed at most
\* once and all callers receive the same instance.
C12_ConstructedOnce ==
    threads # <<>> =>
        /\ loads.encoder <= 1
        /\ loads.detoxify <= 1
        /\ \A op \in {"match_users", "moderate_content"} :
               \A t1, t2 \in Received(op) : threads[t1].got = threads[t2].got

\* what the call of thread t returns when no other call is in flight
RunAlone(t) ==
    IF threads[t].op = "moderate_content"
    THEN moderate_content(input_content, threads[t].arg,
                          ContentModerator.detoxify_model, threads[t].env).result
    ELSE match_users(input_wanted, input_users, threads[t].arg, encoder_vectors,
                     threads[t].env)

RaisesAlone(t) == threads[t].op = "match_users" /\ ~encoder_available

\* C18: under every interleaving, each concurrent moderate_content or
\* match_users call returns what it returns when run alone.
C18_AsIfAlone ==
    \A t \in DOMAIN threads :
        /\ threads[t].pc = "done"
               => (~RaisesAlone(t) /\ threads[t].result = Some(RunAlone(t)))
        /\ threads[t].pc = "raised" => RaisesAlone(t)

\* two moderate_content calls raced through get_moderator(): thread 1 built
\* a moderator of its own but was handed the one thread 2 built, and both
\* returned a flagged verdict
C18_Witness ==
    /\ threads # <<>>
    /\ \A t \in {1, 2} : /\ threads[t].op = "moderate_content"
                          /\ threads[t].pc = "done"
                          /\ TheValue(threads[t].result).is_flagged
    /\ threads[1].made # None
    /\ TheValue(threads[1].got).id = 2

====
